---- MODULE Spec2Model ----
(***************************************************************************)
(* Model of backend/app.py: four Flask handlers that read a PostGIS store. *)
(* One behaviour is one request: Init draws the store content and the      *)
(* request, the actions are the statements of the handler that serves it,  *)
(* each store call either succeeding or raising.                           *)
(***************************************************************************)
EXTENDS Integers, Sequences, FiniteSets, TLC

VARIABLES
    units,          \* rows of demo.tr: [tr, basin, centroid]
    wells,          \* rows of demo.wells: [api_14, geom, spud_date]
    production,     \* rows of demo.production: [api_14, prod_date, oil, gas]
    trTableExists,  \* information_schema.tables holds demo.tr
    req,            \* the request: [handler, tr_id, radiusArg, api_14, body]
    pc,             \* position in the handler
    conn,           \* local `conn`: "unbound" | "open" | "closed"
    cur,            \* local `cur`:  "unbound" | "open" | "closed"
    acquired,       \* number of connections get_db_connection returned
    fault,          \* a store call has raised in this request
    radius,         \* local `radius` of get_wells_by_tr (miles)
    tr_point,       \* local `tr_point` of get_wells_by_tr
    api_list,       \* local `api_list` of get_aggregate_production
    found_apis,     \* local `found_apis` of get_aggregate_production
    resp            \* what the handler returns: [status, error, body]

store == <<units, wells, production, trTableExists>>
locals == <<radius, tr_point, api_list, found_apis>>
vars == <<units, wells, production, trTableExists, req, pc, conn, cur,
          acquired, fault, radius, tr_point, api_list, found_apis, resp>>

----------------------------------------------------------------------------
(* Bounds of the model *)

\* most rows of demo.wells in a proximity request
MaxWells == 3
\* most rows of demo.production in an aggregate request
MaxAggRecords == 4
\* most rows of demo.production in a single-well request
MaxProdRecords == 2
\* wells of the store that share the searched API's 5-character prefix
NumSimilar == 6

----------------------------------------------------------------------------
(* SQL NULL / Python None: a nullable value is <<>> or <<v>> *)

NULL == <<>>
Some(v) == <<v>>
IsNull(x) == x = <<>>
Val(x) == x[1]

BoundedSubsets(U, n) == {S \in SUBSET U : Cardinality(S) <= n}

RECURSIVE Orderings(_)
\* every sequence that lists the elements of S once
Orderings(S) ==
    IF S = {} THEN {<<>>}
    ELSE UNION {{<<x>> \o s : s \in Orderings(S \ {x})} : x \in S}

Range(s) == {s[i] : i \in DOMAIN s}

\* dates are <<year, month, day>>
DateLess(a, b) ==
    \/ a[1] < b[1]
    \/ a[1] = b[1] /\ a[2] < b[2]
    \/ a[1] = b[1] /\ a[2] = b[2] /\ a[3] < b[3]

\* lexicographic order of two API strings (sequences of digits)
RECURSIVE SeqLess(_, _)
SeqLess(a, b) ==
    IF b = <<>> THEN FALSE
    ELSE IF a = <<>> THEN TRUE
    ELSE IF Head(a) # Head(b) THEN Head(a) < Head(b)
    ELSE SeqLess(Tail(a), Tail(b))

----------------------------------------------------------------------------
(* Responses *)

NoResponse == [status |-> 0, error |-> "", body |-> <<>>]
Response(status, error, body) == [status |-> status, error |-> error, body |-> body]

\* a statement of the try block raised: control goes to the except clause
Raises ==
    /\ fault' = TRUE
    /\ pc' = "except"

\* `return ...` inside the try block: the finally clause runs next
Returns(r) ==
    /\ resp' = r
    /\ pc' = "finally_cur"

(* get_db_connection(): psycopg2.connect returns a connection or raises *)
get_db_connection(next) ==
    \/ /\ conn' = "open"
       /\ acquired' = acquired + 1
       /\ pc' = next
       /\ UNCHANGED fault
    \/ /\ Raises
       /\ UNCHANGED <<conn, acquired>>

(* cur = conn.cursor(...): binds `cur` or raises and leaves it as it was *)
OpenCursor(next) ==
    \/ /\ cur' = "open"
       /\ pc' = next
       /\ UNCHANGED fault
    \/ /\ Raises
       /\ UNCHANGED cur

(* finally: if 'cur' in locals(): cur.close().  A close that raises leaves  *)
(* the finally clause at once: the exception replaces the response and the *)
(* rest of the clause is skipped.                                          *)
FinallyCur ==
    /\ pc = "finally_cur"
    /\ \/ /\ cur = "unbound"
          /\ pc' = "finally_conn"
          /\ UNCHANGED <<cur, resp, fault>>
       \/ /\ cur # "unbound"
          /\ cur' = "closed"
          /\ pc' = "finally_conn"
          /\ UNCHANGED <<resp, fault>>
       \/ /\ cur = "open"
          /\ fault' = TRUE
          /\ resp' = Response(500, "Unhandled exception", <<>>)
          /\ pc' = "done"
          /\ UNCHANGED cur
    /\ UNCHANGED <<store, req, conn, acquired, locals>>

(* finally: if 'conn' in locals(): conn.close() *)
FinallyConn ==
    /\ pc = "finally_conn"
    /\ conn' = IF conn = "unbound" THEN conn ELSE "closed"
    /\ pc' = "done"
    /\ UNCHANGED <<store, req, cur, acquired, fault, locals, resp>>

(* except Exception as e: return jsonify({"error": "Server error", ...}), 500 *)
Except(error) ==
    /\ pc = "except"
    /\ Returns(Response(500, error, <<>>))
    /\ UNCHANGED <<store, req, conn, cur, acquired, fault, locals>>

----------------------------------------------------------------------------
(* get_wells_by_tr: proximity search *)

\* points are [lon, lat] in units of 1e-4 degree
Centroid0 == [lon |-> -1040000, lat |-> 400000]
PointN1 == [lon |-> -1040000, lat |-> 400145]
PointN4 == [lon |-> -1040000, lat |-> 400579]
PointN6 == [lon |-> -1040000, lat |-> 400868]
PointE == [lon |-> -1039400, lat |-> 400000]
WellPoints == {PointN1, PointN4, PointN6, PointE}

(* ST_DistanceSphere(geom, point) in millimetres: the haversine distance on *)
(* the sphere of radius 6371008.771415 m, tabulated for the points of the   *)
(* model (1.002, 4.001, 5.997 and 3.176 miles from Centroid0).              *)
SphereTable ==
    (<<PointN1, Centroid0>> :> 1612329) @@
    (<<PointN4, Centroid0>> :> 6438195) @@
    (<<PointN6, Centroid0>> :> 9651733) @@
    (<<PointE, Centroid0>> :> 5110822)

ST_DistanceSphere(g, p) == SphereTable[<<g, p>>]

(* geom <-> point: the planar distance of the two geometries in their own  *)
(* coordinates (degrees), here its square, which orders the same way.      *)
KnnDistance2(g, p) ==
    (g.lon - p.lon) * (g.lon - p.lon) + (g.lat - p.lat) * (g.lat - p.lat)

\* '2010-01-01'::date
SpudCutoff == <<2010, 1, 1>>

\* millimetres per mile: the query's 1609.34 metres
MillimetresPerMile == 1609340

\* w.spud_date > '2010-01-01'::date
SpudAfterCutoffGE(d) == DateLess(SpudCutoff, d) \/ d = SpudCutoff
SpudAfterCutoff(d) == DateLess(SpudCutoff, d)

(* the WHERE clause of the wells query *)
WellMatches(w, p, r) ==
    /\ ~IsNull(w.geom)
    /\ ST_DistanceSphere(Val(w.geom), p) <= r * MillimetresPerMile
    /\ ~IsNull(w.spud_date)
    /\ SpudAfterCutoff(Val(w.spud_date))

(* the rows the wells query may return: the matching rows in an order that *)
(* is ascending in geom <-> point, equal keys in any order                 *)
WellsQuery(p, r) ==
    LET hit == {w \in wells : WellMatches(w, p, r)}
    IN {s \in Orderings(hit) :
           \A i \in 1..(Len(s) - 1) :
               KnnDistance2(Val(s[i].geom), p) <= KnnDistance2(Val(s[i + 1].geom), p)}

\* radius when the query string has none
DefaultRadius == 10

DigitVal ==
    ("0" :> 0) @@ ("1" :> 1) @@ ("2" :> 2) @@ ("3" :> 3) @@ ("4" :> 4) @@
    ("5" :> 5) @@ ("6" :> 6) @@ ("7" :> 7) @@ ("8" :> 8) @@ ("9" :> 9)

IsDigits(s) == Len(s) > 0 /\ \A i \in DOMAIN s : s[i] \in DOMAIN DigitVal

RECURSIVE DigitsValue(_)
DigitsValue(s) ==
    IF s = <<>> THEN 0
    ELSE 10 * DigitsValue(SubSeq(s, 1, Len(s) - 1)) + DigitVal[s[Len(s)]]

(* float(text) on texts that are an optional minus sign and digits, or not *)
(* a number at all: the value, or ValueError                               *)
Float(text) ==
    IF IsDigits(text) THEN [ok |-> TRUE, val |-> DigitsValue(text)]
    ELSE IF Len(text) > 1 /\ Head(text) = "-" /\ IsDigits(Tail(text))
    THEN [ok |-> TRUE, val |-> 0 - DigitsValue(Tail(text))]
    ELSE [ok |-> FALSE, val |-> 0]

(* request.args.get('radius', default=10, type=float): the default when    *)
(* the key is missing and also when the conversion raises ValueError       *)
ArgsGetRadius(arg) ==
    IF IsNull(arg) THEN DefaultRadius
    ELSE IF Float(Val(arg)).ok THEN Float(Val(arg)).val
    ELSE DefaultRadius

Feature(w) == [geometry |-> w.geom,
               properties |-> [api_14 |-> w.api_14, spud_date |-> w.spud_date]]

GetWellsByTr_ParseRadius ==
    /\ req.handler = "wells"
    /\ pc = "start"
    /\ radius' = ArgsGetRadius(req.radiusArg)
    /\ pc' = "connect"
    /\ UNCHANGED <<store, req, conn, cur, acquired, fault, tr_point,
                   api_list, found_apis, resp>>

GetWellsByTr_Connect ==
    /\ req.handler = "wells"
    /\ pc = "connect"
    /\ get_db_connection("cursor")
    /\ UNCHANGED <<store, req, cur, locals, resp>>

GetWellsByTr_Cursor ==
    /\ req.handler = "wells"
    /\ pc = "cursor"
    /\ OpenCursor("centroid")
    /\ UNCHANGED <<store, req, conn, acquired, locals, resp>>

(* SELECT ... FROM demo.tr WHERE tr = %s AND basin = 'DJ'; fetchone() *)
GetWellsByTr_Centroid ==
    /\ req.handler = "wells"
    /\ pc = "centroid"
    /\ LET rows == {u \in units : u.tr = req.tr_id /\ u.basin = "DJ"}
       IN \/ /\ rows = {}
             /\ Returns(Response(404, "TR not found", <<>>))
             /\ UNCHANGED <<tr_point, fault>>
          \/ /\ \E u \in rows : tr_point' = Some(u.centroid)
             /\ pc' = "query"
             /\ UNCHANGED <<resp, fault>>
          \/ /\ Raises
             /\ UNCHANGED <<tr_point, resp>>
    /\ UNCHANGED <<store, req, conn, cur, acquired, radius, api_list, found_apis>>

GetWellsByTr_Query ==
    /\ req.handler = "wells"
    /\ pc = "query"
    /\ \/ /\ \E rows \in WellsQuery(Val(tr_point), radius) :
                Returns(Response(200, "",
                    [features |-> [i \in DOMAIN rows |-> Feature(rows[i])]]))
          /\ UNCHANGED fault
       \/ /\ Raises
          /\ UNCHANGED resp
    /\ UNCHANGED <<store, req, conn, cur, acquired, locals>>

GetWellsByTr_Except ==
    /\ req.handler = "wells"
    /\ Except("Server error")

GetWellsByTr_FinallyCur ==
    /\ req.handler = "wells"
    /\ FinallyCur

GetWellsByTr_FinallyConn ==
    /\ req.handler = "wells"
    /\ FinallyConn

UnitRows ==
    {[tr |-> "6N-68W", basin |-> "DJ", centroid |-> Centroid0],
     [tr |-> "1S-30E", basin |-> "PB", centroid |-> Centroid0]}

SpudDates == {<<2009, 12, 31>>, <<2010, 1, 1>>, <<2010, 1, 2>>}

NearbyWellRows ==
    {[api_14 |-> NULL, geom |-> g, spud_date |-> Some(d)] :
        g \in {NULL} \cup {Some(p) : p \in WellPoints}, d \in SpudDates}

RadiusArgs ==
    {NULL, Some(<<"5">>), Some(<<"0">>), Some(<<"-", "1">>), Some(<<"a", "b", "c">>)}

StartRequest(r) ==
    /\ req = r
    /\ pc = "start"
    /\ conn = "unbound"
    /\ cur = "unbound"
    /\ acquired = 0
    /\ fault = FALSE
    /\ radius = 0
    /\ tr_point = NULL
    /\ api_list = <<>>
    /\ found_apis = {}
    /\ resp = NoResponse

Request(handler, tr_id, radiusArg, api_14, body) ==
    [handler |-> handler, tr_id |-> tr_id, radiusArg |-> radiusArg,
     api_14 |-> api_14, body |-> body]

InitNearby ==
    /\ units \in SUBSET UnitRows
    /\ wells \in BoundedSubsets(NearbyWellRows, MaxWells)
    /\ production = {}
    /\ trTableExists = TRUE
    /\ \E t \in {"6N-68W", "1S-30E"}, a \in RadiusArgs :
          StartRequest(Request("wells", t, a, <<>>, <<>>))

NextNearby ==
    \/ GetWellsByTr_ParseRadius
    \/ GetWellsByTr_Connect
    \/ GetWellsByTr_Cursor
    \/ GetWellsByTr_Centroid
    \/ GetWellsByTr_Query
    \/ GetWellsByTr_Except
    \/ GetWellsByTr_FinallyCur
    \/ GetWellsByTr_FinallyConn

SpecNearby == InitNearby /\ [][NextNearby]_vars

----------------------------------------------------------------------------
(* get_aggregate_production: production normalised to months since first  *)
(* production                                                              *)

IsLeap(y) == (y % 4 = 0) /\ ((y % 100 # 0) \/ (y % 400 = 0))

DaysInMonth(y, m) ==
    IF m = 2 THEN (IF IsLeap(y) THEN 29 ELSE 28)
    ELSE IF m \in {4, 6, 9, 11} THEN 30
    ELSE 31

RECURSIVE BorrowDays(_, _)
\* while (tm_mday < 0) { tm_mday += days of the earlier date's month; tm_mon--; }
BorrowDays(f, dim) ==
    IF f.mday < 0
    THEN BorrowDays([f EXCEPT !.mday = @ + dim, !.mon = @ - 1], dim)
    ELSE f

RECURSIVE BorrowMonths(_)
\* while (tm_mon < 0) { tm_mon += 12; tm_year--; }
BorrowMonths(f) ==
    IF f.mon < 0
    THEN BorrowMonths([f EXCEPT !.mon = @ + 12, !.year = @ - 1])
    ELSE f

(* age(d, first) for d >= first: the symbolic difference of the fields,    *)
(* negative days and then negative months borrowed from the next field     *)
age(d, first) ==
    BorrowMonths(BorrowDays(
        [year |-> d[1] - first[1], mon |-> d[2] - first[2], mday |-> d[3] - first[3]],
        DaysInMonth(first[1], first[2])))

\* EXTRACT(YEAR FROM age) * 12 + EXTRACT(MONTH FROM age) + 1
MonthNumZeroBased(d, first) == age(d, first).year * 12 + age(d, first).mon
MonthNum(d, first) == age(d, first).year * 12 + age(d, first).mon + 1

\* WHERE month_num <= 48
Horizon == 48

(* ROUND(x::numeric, 2): x in thousandths, the result in hundredths, half  *)
(* away from zero (volumes are not negative)                               *)
Round2(x) == (x + 5) \div 10

RECURSIVE MinDate(_)
MinDate(S) ==
    LET d == CHOOSE x \in S : TRUE
    IN IF S = {d} THEN d
       ELSE LET m == MinDate(S \ {d}) IN IF DateLess(d, m) THEN d ELSE m

(* first_prod: MIN(prod_date) over all the rows of the API, null oil or not *)
first_prod_date(api) ==
    MinDate({r.prod_date : r \in {q \in production : q.api_14 = api}})

(* monthly_prod filtered by month_num <= 48: the rows of the requested     *)
(* APIs with oil not null                                                  *)
monthly_prod(apis) ==
    {r \in production :
        /\ r.api_14 \in apis
        /\ ~IsNull(r.oil)
        /\ MonthNum(r.prod_date, first_prod_date(r.api_14)) <= Horizon}

AggregateRow(r) ==
    [api_14 |-> r.api_14,
     month_num |-> MonthNum(r.prod_date, first_prod_date(r.api_14)),
     oil |-> Round2(Val(r.oil))]

(* the result of the aggregate query: ORDER BY api_14, month_num, rows     *)
(* with equal keys in any order                                            *)
AggregateQuery(apis) ==
    {[i \in DOMAIN s |-> AggregateRow(s[i])] :
        s \in {t \in Orderings(monthly_prod(apis)) :
                 \A i \in 1..(Len(t) - 1) :
                    LET a == AggregateRow(t[i])
                        b == AggregateRow(t[i + 1])
                    IN \/ SeqLess(a.api_14, b.api_14)
                       \/ a.api_14 = b.api_14 /\ a.month_num <= b.month_num}}

Point(row) == [month |-> row.month_num, oil |-> row.oil]

RECURSIVE OrganizeDropFirst(_)
OrganizeDropFirst(rows) ==
    IF rows = <<>> THEN <<>>
    ELSE LET done == OrganizeDropFirst(SubSeq(rows, 1, Len(rows) - 1))
             row == rows[Len(rows)]
         IN IF row.api_14 \in DOMAIN done
            THEN [done EXCEPT ![row.api_14] = Append(@, Point(row))]
            ELSE done @@ (row.api_14 :> <<>>)

RECURSIVE Organize(_)
(* for row in results: wells_data.setdefault-style grouping by API, the    *)
(* rows of one API kept in result order                                    *)
Organize(rows) ==
    IF rows = <<>> THEN <<>>
    ELSE LET done == Organize(SubSeq(rows, 1, Len(rows) - 1))
             row == rows[Len(rows)]
         IN IF row.api_14 \in DOMAIN done
            THEN [done EXCEPT ![row.api_14] = Append(@, Point(row))]
            ELSE done @@ (row.api_14 :> <<Point(row)>>)

\* SELECT DISTINCT api_14 FROM demo.wells WHERE api_14 = ANY(%s)
WellsWithApi(apis) ==
    {Val(w.api_14) : w \in {v \in wells : ~IsNull(v.api_14) /\ Val(v.api_14) \in apis}}

(* api_list = request.json.get('apis', []): request.json is None for a     *)
(* request without a JSON object, and None has no attribute get            *)
GetAggregateProduction_ReadApis ==
    /\ req.handler = "aggregate"
    /\ pc = "start"
    /\ \/ /\ IsNull(req.body)
          /\ pc' = "except"
          /\ UNCHANGED <<api_list, resp>>
       \/ /\ ~IsNull(req.body)
          /\ LET list == IF Val(req.body).hasApis THEN Val(req.body).apis ELSE <<>>
             IN /\ api_list' = list
                /\ IF list = <<>>
                   THEN Returns(Response(400, "No APIs provided", <<>>))
                   ELSE pc' = "connect" /\ UNCHANGED resp
    /\ UNCHANGED <<store, req, conn, cur, acquired, fault, radius, tr_point, found_apis>>

GetAggregateProduction_Connect ==
    /\ req.handler = "aggregate"
    /\ pc = "connect"
    /\ get_db_connection("cursor")
    /\ UNCHANGED <<store, req, cur, locals, resp>>

GetAggregateProduction_Cursor ==
    /\ req.handler = "aggregate"
    /\ pc = "cursor"
    /\ OpenCursor("verify")
    /\ UNCHANGED <<store, req, conn, acquired, locals, resp>>

GetAggregateProduction_Verify ==
    /\ req.handler = "aggregate"
    /\ pc = "verify"
    /\ \/ /\ found_apis' = WellsWithApi(Range(api_list))
          /\ IF found_apis' = {}
             THEN Returns(Response(404, "No matching wells", <<>>))
             ELSE pc' = "query" /\ UNCHANGED resp
          /\ UNCHANGED fault
       \/ /\ Raises
          /\ UNCHANGED <<found_apis, resp>>
    /\ UNCHANGED <<store, req, conn, cur, acquired, radius, tr_point, api_list>>

(* cur.execute(query, (api_list, api_list)); results = cur.fetchall();     *)
(* wells_data grouped from results; the success envelope                   *)
GetAggregateProduction_Query ==
    /\ req.handler = "aggregate"
    /\ pc = "query"
    /\ \/ /\ \E results \in AggregateQuery(Range(api_list)) :
                LET wells_data == Organize(results)
                IN Returns(Response(200, "",
                       [success |-> TRUE, data |-> wells_data,
                        well_count |-> Cardinality(DOMAIN wells_data)]))
          /\ UNCHANGED fault
       \/ /\ Raises
          /\ UNCHANGED resp
    /\ UNCHANGED <<store, req, conn, cur, acquired, locals>>

GetAggregateProduction_Except ==
    /\ req.handler = "aggregate"
    /\ Except("Server error")

GetAggregateProduction_FinallyCur ==
    /\ req.handler = "aggregate"
    /\ FinallyCur

GetAggregateProduction_FinallyConn ==
    /\ req.handler = "aggregate"
    /\ FinallyConn

ApiA == <<0, 5, 1, 2, 3, 1>>
ApiB == <<0, 5, 1, 2, 3, 2>>

ApiWell(api) == [api_14 |-> Some(api), geom |-> NULL, spud_date |-> NULL]

\* volumes in thousandths: 12.345
Volumes == {12345}

AggDates ==
    {<<2015, 1, 15>>, <<2015, 2, 1>>, <<2015, 2, 15>>, <<2018, 12, 15>>, <<2019, 1, 15>>}

AggProductionRows ==
    {[api_14 |-> ApiA, prod_date |-> d, oil |-> o, gas |-> NULL] :
        d \in AggDates, o \in {NULL} \cup {Some(v) : v \in Volumes}}
    \cup
    {[api_14 |-> ApiB, prod_date |-> <<2015, 1, 15>>, oil |-> o, gas |-> NULL] :
        o \in {NULL} \cup {Some(v) : v \in Volumes}}

JsonObject(hasApis, apis) == Some([hasApis |-> hasApis, apis |-> apis])

AggBodies ==
    {NULL, JsonObject(FALSE, <<>>), JsonObject(TRUE, <<>>), JsonObject(TRUE, <<ApiA>>),
     JsonObject(TRUE, <<ApiB>>), JsonObject(TRUE, <<ApiA, ApiB>>)}

InitAgg ==
    /\ units = {}
    /\ wells \in {{ApiWell(ApiA)}, {ApiWell(ApiA), ApiWell(ApiB)}}
    /\ production \in BoundedSubsets(AggProductionRows, MaxAggRecords)
    /\ trTableExists = TRUE
    /\ \E b \in AggBodies : StartRequest(Request("aggregate", "", NULL, <<>>, b))

NextAgg ==
    \/ GetAggregateProduction_ReadApis
    \/ GetAggregateProduction_Connect
    \/ GetAggregateProduction_Cursor
    \/ GetAggregateProduction_Verify
    \/ GetAggregateProduction_Query
    \/ GetAggregateProduction_Except
    \/ GetAggregateProduction_FinallyCur
    \/ GetAggregateProduction_FinallyConn

SpecAgg == InitAgg /\ [][NextAgg]_vars

----------------------------------------------------------------------------
(* get_well_production: the production series of one well *)

\* api_14[:5]
PrefixLen == 5
\* LIMIT 5
SimilarLimit == 5

Min(a, b) == IF a < b THEN a ELSE b

\* api_14 LIKE prefix || '%'
StartsWith(s, prefix) ==
    /\ Len(prefix) <= Len(s)
    /\ SubSeq(s, 1, Len(prefix)) = prefix

(* SELECT api_14, well_name FROM demo.wells WHERE api_14 LIKE %s LIMIT 5,  *)
(* with f"{api_14[:5]}%": any SimilarLimit of the matching rows, all of    *)
(* them when there are fewer                                               *)
SimilarWells(api) ==
    LET prefix == SubSeq(api, 1, Min(PrefixLen, Len(api)))
        like == {w \in wells : ~IsNull(w.api_14) /\ StartsWith(Val(w.api_14), prefix)}
    IN {S \in SUBSET like : Cardinality(S) = Min(SimilarLimit, Cardinality(like))}

\* WHERE api_14 = %s AND oil IS NOT NULL AND gas IS NOT NULL
ProductionMatchesEither(r, api) ==
    /\ r.api_14 = api
    /\ ~IsNull(r.oil) \/ ~IsNull(r.gas)
ProductionMatches(r, api) ==
    /\ r.api_14 = api
    /\ ~IsNull(r.oil)
    /\ ~IsNull(r.gas)

ProductionRow(r) ==
    [prod_date |-> r.prod_date,
     oil |-> IF IsNull(r.oil) THEN NULL ELSE Some(Round2(Val(r.oil))),
     gas |-> IF IsNull(r.gas) THEN NULL ELSE Some(Round2(Val(r.gas)))]

(* the result of the production query: ORDER BY prod_date, rows of one     *)
(* date in any order                                                       *)
ProductionQuery(api) ==
    {[i \in DOMAIN s |-> ProductionRow(s[i])] :
        s \in {t \in Orderings({r \in production : ProductionMatches(r, api)}) :
                 \A i \in 1..(Len(t) - 1) : ~DateLess(t[i + 1].prod_date, t[i].prod_date)}}

GetWellProduction_Connect ==
    /\ req.handler = "production"
    /\ pc = "start"
    /\ get_db_connection("cursor")
    /\ UNCHANGED <<store, req, cur, locals, resp>>

GetWellProduction_Cursor ==
    /\ req.handler = "production"
    /\ pc = "cursor"
    /\ OpenCursor("count")
    /\ UNCHANGED <<store, req, conn, acquired, locals, resp>>

\* SELECT COUNT(*) as count FROM demo.wells, logged only
GetWellProduction_Count ==
    /\ req.handler = "production"
    /\ pc = "count"
    /\ \/ pc' = "well" /\ UNCHANGED fault
       \/ Raises
    /\ UNCHANGED <<store, req, conn, cur, acquired, locals, resp>>

(* the well by exact API; when there is none, the similar-API query and    *)
(* the 404 result                                                          *)
GetWellProduction_FindWell ==
    /\ req.handler = "production"
    /\ pc = "well"
    /\ LET found == {w \in wells : ~IsNull(w.api_14) /\ Val(w.api_14) = req.api_14}
       IN \/ /\ found # {}
             /\ pc' = "query"
             /\ UNCHANGED <<resp, fault>>
          \/ /\ found = {}
             /\ \E similar_wells \in SimilarWells(req.api_14) :
                   Returns(Response(404, "Well not found",
                       [similar_wells |-> similar_wells, api_searched |-> req.api_14]))
             /\ UNCHANGED fault
          \/ /\ Raises
             /\ UNCHANGED resp
    /\ UNCHANGED <<store, req, conn, cur, acquired, locals>>

(* the production query and, on an empty result, the null-count query     *)
(* (logged only): either may raise; the success result is the same         *)
GetWellProduction_Query ==
    /\ req.handler = "production"
    /\ pc = "query"
    /\ \/ /\ \E rows \in ProductionQuery(req.api_14) :
                Returns(Response(200, "",
                    [api_14 |-> req.api_14, production |-> rows,
                     record_count |-> Len(rows)]))
          /\ UNCHANGED fault
       \/ /\ Raises
          /\ UNCHANGED resp
    /\ UNCHANGED <<store, req, conn, cur, acquired, locals>>

GetWellProduction_Except ==
    /\ req.handler = "production"
    /\ Except("Server error")

GetWellProduction_FinallyCur ==
    /\ req.handler = "production"
    /\ FinallyCur

GetWellProduction_FinallyConn ==
    /\ req.handler = "production"
    /\ FinallyConn

ApiUnknown == <<0, 5, 1, 2, 3, 0>>
ApiElsewhere == <<0, 5, 9, 9, 9, 1>>

ProdApis == {<<0, 5, 1, 2, 3, k>> : k \in 1..NumSimilar} \cup {ApiElsewhere}

ProdDates == {<<2015, 1, 1>>, <<2015, 2, 1>>}

ProdProductionRows ==
    {[api_14 |-> ApiA, prod_date |-> d, oil |-> o, gas |-> g] :
        d \in ProdDates, o \in {NULL} \cup {Some(v) : v \in Volumes},
        g \in {NULL} \cup {Some(v) : v \in Volumes}}
    \cup
    {[api_14 |-> ApiB, prod_date |-> <<2015, 1, 1>>, oil |-> Some(v), gas |-> Some(v)] :
        v \in Volumes}

InitProd ==
    /\ units = {}
    /\ wells \in SUBSET {ApiWell(a) : a \in ProdApis}
    /\ production \in BoundedSubsets(ProdProductionRows, MaxProdRecords)
    /\ trTableExists = TRUE
    /\ \E a \in {ApiA, ApiUnknown} : StartRequest(Request("production", "", NULL, a, <<>>))

NextProd ==
    \/ GetWellProduction_Connect
    \/ GetWellProduction_Cursor
    \/ GetWellProduction_Count
    \/ GetWellProduction_FindWell
    \/ GetWellProduction_Query
    \/ GetWellProduction_Except
    \/ GetWellProduction_FinallyCur
    \/ GetWellProduction_FinallyConn

SpecProd == InitProd /\ [][NextProd]_vars

----------------------------------------------------------------------------
(* get_tr_data: the units of basin DJ as a feature collection *)

GetTrData_Connect ==
    /\ req.handler = "tr"
    /\ pc = "start"
    /\ get_db_connection("cursor")
    /\ UNCHANGED <<store, req, cur, locals, resp>>

\* print(conn.get_dsn_parameters()); cur = conn.cursor()
GetTrData_Cursor ==
    /\ req.handler = "tr"
    /\ pc = "cursor"
    /\ OpenCursor("exists")
    /\ UNCHANGED <<store, req, conn, acquired, locals, resp>>

\* SELECT EXISTS (... table_schema = 'demo' AND table_name = 'tr')
GetTrData_CheckTable ==
    /\ req.handler = "tr"
    /\ pc = "exists"
    /\ \/ /\ ~trTableExists
          /\ Returns(Response(404, "Table not found", <<>>))
          /\ UNCHANGED fault
       \/ /\ trTableExists
          /\ pc' = "close"
          /\ UNCHANGED <<resp, fault>>
       \/ /\ Raises
          /\ UNCHANGED resp
    /\ UNCHANGED <<store, req, conn, cur, acquired, locals>>

\* cur.close()
GetTrData_CloseCursor ==
    /\ req.handler = "tr"
    /\ pc = "close"
    /\ \/ /\ cur' = "closed"
          /\ pc' = "cursor2"
          /\ UNCHANGED fault
       \/ /\ Raises
          /\ UNCHANGED cur
    /\ UNCHANGED <<store, req, conn, acquired, locals, resp>>

\* cur = conn.cursor(cursor_factory=RealDictCursor)
GetTrData_Cursor2 ==
    /\ req.handler = "tr"
    /\ pc = "cursor2"
    /\ OpenCursor("query")
    /\ UNCHANGED <<store, req, conn, acquired, locals, resp>>

(* the feature collection of the units with basin = 'DJ', in any order; a  *)
(* failure is logged and raised again to the outer except clauses          *)
GetTrData_Query ==
    /\ req.handler = "tr"
    /\ pc = "query"
    /\ \/ /\ \E rows \in Orderings({u \in units : u.basin = "DJ"}) :
                Returns(Response(200, "", [features |-> rows]))
          /\ UNCHANGED fault
       \/ /\ Raises
          /\ UNCHANGED resp
    /\ UNCHANGED <<store, req, conn, cur, acquired, locals>>

GetTrData_Except ==
    /\ req.handler = "tr"
    /\ Except("Database error")

GetTrData_FinallyCur ==
    /\ req.handler = "tr"
    /\ FinallyCur

GetTrData_FinallyConn ==
    /\ req.handler = "tr"
    /\ FinallyConn

InitTr ==
    /\ units \in SUBSET UnitRows
    /\ wells = {}
    /\ production = {}
    /\ trTableExists \in BOOLEAN
    /\ StartRequest(Request("tr", "", NULL, <<>>, <<>>))

NextTr ==
    \/ GetTrData_Connect
    \/ GetTrData_Cursor
    \/ GetTrData_CheckTable
    \/ GetTrData_CloseCursor
    \/ GetTrData_Cursor2
    \/ GetTrData_Query
    \/ GetTrData_Except
    \/ GetTrData_FinallyCur
    \/ GetTrData_FinallyConn

----------------------------------------------------------------------------
(* the service: one request to any of the four routes *)

Init == InitTr \/ InitNearby \/ InitProd \/ InitAgg

Next == NextTr \/ NextNearby \/ NextProd \/ NextAgg

Spec == Init /\ [][Next]_vars

----------------------------------------------------------------------------
(* Properties *)

Done(handler) == req.handler = handler /\ pc = "done"

\* the wells a proximity search around p with radius r (miles) must return
NearbyExpected(p, r) ==
    {w \in wells :
        /\ ~IsNull(w.geom)
        /\ ~IsNull(w.spud_date)
        /\ DateLess(<<2010, 1, 1>>, Val(w.spud_date))
        /\ SphereTable[<<Val(w.geom), p>>] <= r * 1609340}

(* C1: a successful get_wells_by_tr with radius r > 0 returns exactly the  *)
(* wells with a geometry, a spud date after 2010-01-01 and a great-circle  *)
(* distance to the unit's centroid of at most r * 1609.34 m, each once.    *)
C1_NearbyReturnsExactlyTheWellsInRadius ==
    (Done("wells") /\ resp.status = 200 /\ radius > 0) =>
        \E u \in units :
            /\ u.tr = req.tr_id
            /\ u.basin = "DJ"
            /\ Len(resp.body.features) = Cardinality(NearbyExpected(u.centroid, radius))
            /\ Range(resp.body.features) =
                   {Feature(w) : w \in NearbyExpected(u.centroid, radius)}

\* wells at 1, 4 and 6 miles, radius 5: the first two are returned
C1_Witness ==
    /\ Done("wells")
    /\ resp.status = 200
    /\ radius = 5
    /\ {Val(w.geom) : w \in {v \in wells : ~IsNull(v.geom) /\ Val(v.spud_date) = <<2010, 1, 2>>}}
           = {PointN1, PointN4, PointN6}
    /\ Len(resp.body.features) = 2
    /\ resp.body.features[1].geometry = Some(PointN1)
    /\ resp.body.features[2].geometry = Some(PointN4)

(* C2: in a successful get_wells_by_tr the great-circle distances from the *)
(* unit's centroid to the returned wells never decrease along the result.  *)
C2_SphereDistancesNonDecreasing ==
    (Done("wells") /\ resp.status = 200) =>
        \A i \in 1..(Len(resp.body.features) - 1) :
            SphereTable[<<Val(resp.body.features[i].geometry), Val(tr_point)>>]
                <= SphereTable[<<Val(resp.body.features[i + 1].geometry), Val(tr_point)>>]

(* C3: get_wells_by_tr uses radius 10 when none is supplied, and answers   *)
(* 400 to a supplied radius that is not a positive number (the unit being  *)
(* one of basin DJ and no store call having failed).                       *)
C3_RadiusDefaultedOrValidated ==
    (Done("wells") /\ ~fault) =>
        /\ IsNull(req.radiusArg) => radius = 10
        /\ (/\ ~IsNull(req.radiusArg)
            /\ \E u \in units : u.tr = req.tr_id /\ u.basin = "DJ"
            /\ \/ ~Float(Val(req.radiusArg)).ok
               \/ Float(Val(req.radiusArg)).val <= 0)
           => resp.status = 400

\* (year(d) - year(first)) * 12 + (month(d) - month(first)) + 1
CalendarMonth(d, first) == (d[1] - first[1]) * 12 + (d[2] - first[2]) + 1

\* the series of an API in a success envelope, empty when it has no key
SeriesOf(api) ==
    IF api \in DOMAIN resp.body.data THEN resp.body.data[api] ELSE <<>>

(* C4: in a successful get_aggregate_production the month emitted for each *)
(* record with oil is its calendar month difference to the well's first    *)
(* production date plus one: per well and month, as many points as records.*)
C4_MonthIsCalendarDifference ==
    (Done("aggregate") /\ resp.status = 200) =>
        \A api \in Range(api_list) : \A m \in 1..Horizon :
            Cardinality({i \in DOMAIN SeriesOf(api) : SeriesOf(api)[i].month = m})
              = Cardinality({r \in production :
                    /\ r.api_14 = api
                    /\ ~IsNull(r.oil)
                    /\ CalendarMonth(r.prod_date, first_prod_date(api)) = m})

\* the requested APIs that are wells of the store
Resolved == {a \in Range(api_list) : \E w \in wells : w.api_14 = Some(a)}

(* C5: every key of a successful get_aggregate_production belongs to the   *)
(* resolved set, the requested APIs that are wells of the store.           *)
C5_KeysAreResolvedWells ==
    (Done("aggregate") /\ resp.status = 200) =>
        DOMAIN resp.body.data \subseteq Resolved

(* C6: get_aggregate_production answers 400 when the request carries no    *)
(* API list or an empty one and 404 when none of the listed APIs is a well *)
(* (no store call having failed), never a generic 500 in their place.      *)
C6_MissingListIs400AndNoMatchIs404 ==
    (Done("aggregate") /\ ~fault) =>
        LET noList == \/ IsNull(req.body)
                      \/ ~Val(req.body).hasApis
                      \/ Val(req.body).apis = <<>>
        IN /\ noList => resp.status = 400
           /\ (~noList /\ Resolved = {}) => resp.status = 404

(* C7: in a successful get_aggregate_production every month of every       *)
(* series is in 1..48 and the months of one series never decrease.         *)
C7_MonthsInHorizonAndOrdered ==
    (Done("aggregate") /\ resp.status = 200) =>
        \A api \in DOMAIN resp.body.data :
            \A i \in DOMAIN resp.body.data[api] :
                /\ resp.body.data[api][i].month \in 1..48
                /\ i < Len(resp.body.data[api]) =>
                       resp.body.data[api][i].month <= resp.body.data[api][i + 1].month

\* a well whose earliest record has null oil, with a series that ends at month 48
C7_Witness ==
    /\ Done("aggregate")
    /\ resp.status = 200
    /\ \E api \in DOMAIN resp.body.data :
          /\ \E r \in production :
                /\ r.api_14 = api
                /\ r.prod_date = first_prod_date(api)
                /\ IsNull(r.oil)
          /\ Len(resp.body.data[api]) >= 2
          /\ resp.body.data[api][Len(resp.body.data[api])].month = 48

\* the API has a record with oil within the horizon
HasQualifyingRecord(api) ==
    \E r \in production :
        /\ r.api_14 = api
        /\ ~IsNull(r.oil)
        /\ MonthNum(r.prod_date, first_prod_date(api)) <= 48

(* C8: in a successful get_aggregate_production a resolved well without a  *)
(* record with oil within 48 months has no key, every key has a series     *)
(* that is not empty, and well_count is the number of keys.                *)
C8_NoEmptySeriesAndCountOfKeys ==
    (Done("aggregate") /\ resp.status = 200) =>
        /\ \A api \in Resolved : ~HasQualifyingRecord(api) => api \notin DOMAIN resp.body.data
        /\ \A api \in DOMAIN resp.body.data : Len(resp.body.data[api]) >= 1
        /\ resp.body.well_count = Cardinality(DOMAIN resp.body.data)

\* two resolved wells, one with records none of which qualifies: one key only
C8_Witness ==
    /\ Done("aggregate")
    /\ resp.status = 200
    /\ Cardinality(Resolved) = 2
    /\ resp.body.well_count = 1
    /\ \E api \in Resolved :
          /\ api \notin DOMAIN resp.body.data
          /\ \E r \in production : r.api_14 = api

\* the records of the requested API with oil and gas
WithOilAndGas ==
    {r \in production : r.api_14 = req.api_14 /\ r.oil # NULL /\ r.gas # NULL}

WellExists == \E w \in wells : w.api_14 = Some(req.api_14)

(* C9: get_well_production of an API that is a well succeeds (no store     *)
(* call having failed) with exactly the well's records that have oil and   *)
(* gas, by ascending date, record_count their number, possibly none; 404   *)
(* is answered only when no well has the API, with at most 5 similar       *)
(* wells, all sharing the API's first 5 characters.                        *)
C9_ProductionOfAnExistingWell ==
    Done("production") =>
        /\ (WellExists /\ ~fault) => resp.status = 200
        /\ resp.status = 200 =>
              /\ WellExists
              /\ Len(resp.body.production) = Cardinality(WithOilAndGas)
              /\ Range(resp.body.production) =
                    {[prod_date |-> r.prod_date, oil |-> Some(Round2(Val(r.oil))),
                      gas |-> Some(Round2(Val(r.gas)))] : r \in WithOilAndGas}
              /\ \A i \in 1..(Len(resp.body.production) - 1) :
                    ~DateLess(resp.body.production[i + 1].prod_date,
                              resp.body.production[i].prod_date)
              /\ resp.body.record_count = Len(resp.body.production)
        /\ resp.status = 404 =>
              /\ ~WellExists
              /\ Cardinality(resp.body.similar_wells) <= 5
              /\ \A w \in resp.body.similar_wells :
                    /\ w \in wells
                    /\ SubSeq(Val(w.api_14), 1, 5) = SubSeq(req.api_14, 1, 5)

\* a well whose records all lack oil or gas: success with an empty series
C9_Witness ==
    /\ Done("production")
    /\ resp.status = 200
    /\ resp.body.production = <<>>
    /\ resp.body.record_count = 0
    /\ \E r \in production : r.api_14 = req.api_14

(* C10: when a handler returns it has acquired at most one connection, a   *)
(* connection it acquired is closed, and a request that acquired none      *)
(* closed nothing and raised nothing from its cleanup.                     *)
C10_ConnectionReleasedOnEveryExit ==
    pc = "done" =>
        /\ acquired <= 1
        /\ acquired = 1 => conn = "closed"
        /\ acquired = 0 => (conn = "unbound" /\ resp.error # "Unhandled exception")

====
